---- MODULE Spec2Model ----
(***************************************************************************)
(* Model of custom_components/tuya_ble/select.py: the static mapping       *)
(* table, get_mapping_by_device, TuyaBLESelect.current_option,             *)
(* TuyaBLESelect.select_option and async_setup_entry.  The datapoint       *)
(* collection of the device driver (tuya_ble.py) is not part of the file;  *)
(* it is modelled from the interface the specification gives (section 6).  *)
(***************************************************************************)
EXTENDS Integers, Sequences, FiniteSets, TLC

VARIABLES
    table,       \* the module-level `mapping` dict in force
    device,      \* [category, product_id] of data.device
    datapoints,  \* device.datapoints: dict dp_id -> [type, value]
    tasks,       \* coroutines handed to hass.create_task, not yet run (FIFO)
    entities,    \* the list given to async_add_entities
    pc,          \* "setup" before async_setup_entry has run, "ready" after
    call         \* the last operation that ran, its arguments and its result

vars == <<table, device, datapoints, tasks, entities, pc, call>>

(***************************** bounds **************************************)
MaxTasks == 2
MaxRaw == 4

RawValues == -1 .. MaxRaw

(*********************** Python values *************************************)
\* Optional values: None and a present value.
None == [some |-> FALSE]
Some(x) == [some |-> TRUE, val |-> x]

\* Typed results of current_option: a str, an int or None stay distinguishable.
PyNone == [type |-> "NoneType"]
PyStr(s) == [type |-> "str", s |-> s]
PyInt(n) == [type |-> "int", n |-> n]

\* dict.get(key): the entry, or None when the key is missing.
DictGet(d, key) == IF key \in DOMAIN d THEN Some(d[key]) ELSE None

\* value in list
In(value, list) == \E i \in 1 .. Len(list) : list[i] = value

\* list.index(value): the 0-based position of the first occurrence.
ListIndex(list, value) ==
    (CHOOSE i \in 1 .. Len(list) :
        list[i] = value /\ \A j \in 1 .. i - 1 : list[j] # value) - 1

(*********************** imported names ************************************)
\* The two fingerbot modes of const.py; the units of temperature and the
\* datapoint types are kept by name.
FINGERBOT_MODE_PUSH == "push"
FINGERBOT_MODE_SWITCH == "switch"
CELSIUS == "UnitOfTemperature.CELSIUS"
FAHRENHEIT == "UnitOfTemperature.FAHRENHEIT"
DT_ENUM == "DT_ENUM"
DT_VALUE == "DT_VALUE"
DataPointTypes == {DT_ENUM, DT_VALUE}

(*********************** dataclasses ***************************************)
SelectEntityDescription(key, options) == [key |-> key, options |-> options]

\* dp_type "None" stands for the dataclass default dp_type=None.
TuyaBLESelectMapping(dp_id, description, force_add, dp_type) ==
    [dp_id |-> dp_id, description |-> description,
     force_add |-> force_add, dp_type |-> dp_type]

\* TuyaBLESelectMapping(dp_id=..., description=...) with the defaults.
DefaultSelectMapping(dp_id, description) ==
    TuyaBLESelectMapping(dp_id, description, TRUE, "None")

TemperatureUnitDescription(options) ==
    SelectEntityDescription("temperature_unit", options)

TuyaBLEFingerbotModeMapping(dp_id) ==
    DefaultSelectMapping(dp_id,
        SelectEntityDescription("fingerbot_mode",
            <<FINGERBOT_MODE_PUSH, FINGERBOT_MODE_SWITCH>>))

\* products and mapping are optional: None or Some(value).
TuyaBLECategorySelectMapping(products, dflt) ==
    [products |-> products, mapping |-> dflt]

\* dict.fromkeys(keys, value)
FromKeys(keys, value) == [k \in keys |-> value]

(*********************** the static table **********************************)
mapping ==
    ( "co2bj" :> TuyaBLECategorySelectMapping(
          Some("59s19z5m" :> <<
              DefaultSelectMapping(101,
                  TemperatureUnitDescription(<<CELSIUS, FAHRENHEIT>>)) >>),
          None) )
 @@ ( "ms" :> TuyaBLECategorySelectMapping(
          Some("ludzroix" :> <<
              DefaultSelectMapping(31,
                  SelectEntityDescription("beep_volume",
                      <<"mute", "low", "normal", "high">>)) >>),
          None) )
 @@ ( "szjqr" :> TuyaBLECategorySelectMapping(
          Some(FromKeys({"3yqdo5yt", "xhf790if"},
                        << TuyaBLEFingerbotModeMapping(2) >>)
            @@ FromKeys({"blliqpsj", "yiihr7zh"},
                        << TuyaBLEFingerbotModeMapping(8) >>)
            @@ FromKeys({"ltak7e1p", "y6kttvd6", "yrnk7mnn"},
                        << TuyaBLEFingerbotModeMapping(8) >>)),
          None) )
 @@ ( "wsdcg" :> TuyaBLECategorySelectMapping(
          Some("ojzlzzsw" :> <<
              DefaultSelectMapping(9,
                  TemperatureUnitDescription(<<CELSIUS, FAHRENHEIT>>)) >>),
          None) )
 @@ ( "sfkzq" :> TuyaBLECategorySelectMapping(
          Some("1fcnd8xk" :> <<
              DefaultSelectMapping(10,
                  SelectEntityDescription("beep_volume",
                      <<"cancel", "24h", "48h", "72h">>)) >>),
          None) )

(***************************************************************************)
(* A second table built from the same dataclasses, holding the shapes the  *)
(* static table does not use: a category default list, a category with no  *)
(* products dict, an empty products dict, force_add=False and a dp_type.   *)
(***************************************************************************)
OnOff == SelectEntityDescription("on_off", <<"off", "on">>)
Level == SelectEntityDescription("level", <<"lo", "mid", "hi">>)

mapping_shapes ==
    ( "both" :> TuyaBLECategorySelectMapping(
          Some("listed" :> <<
              TuyaBLESelectMapping(1, OnOff, TRUE, "None"),
              TuyaBLESelectMapping(3, Level, FALSE, DT_ENUM) >>),
          Some(<< TuyaBLESelectMapping(3, Level, FALSE, "None"),
                  TuyaBLESelectMapping(1, OnOff, FALSE, DT_ENUM) >>)) )
 @@ ( "only_default" :> TuyaBLECategorySelectMapping(
          None,
          Some(<< TuyaBLESelectMapping(1, OnOff, TRUE, "None") >>)) )
 @@ ( "empty_products" :> TuyaBLECategorySelectMapping(
          Some(<< >>),
          Some(<< TuyaBLESelectMapping(1, OnOff, FALSE, "None") >>)) )
 @@ ( "no_default" :> TuyaBLECategorySelectMapping(
          Some("listed" :> << >>),
          None) )

TableNames == {"mapping", "mapping_shapes"}
Table(name) == IF name = "mapping" THEN mapping ELSE mapping_shapes

\* The keys the tables use, and one key no table uses.
Categories == DOMAIN mapping \cup DOMAIN mapping_shapes \cup {"unknown"}
ProductsOf(t) ==
    UNION {DOMAIN t[c].products.val : c \in {k \in DOMAIN t : t[k].products.some}}
ProductIds == ProductsOf(mapping) \cup ProductsOf(mapping_shapes) \cup {"unknown"}

(*********************** get_mapping_by_device *****************************)
\* A resolver that looks at the category default before the product entry.
get_mapping_by_device_default_first(tbl, dev) ==
    LET category == DictGet(tbl, dev.category) IN
    IF category.some /\ category.val.products.some
    THEN IF category.val.mapping.some
         THEN category.val.mapping.val
         ELSE LET product_mapping ==
                      DictGet(category.val.products.val, dev.product_id) IN
              IF product_mapping.some THEN product_mapping.val ELSE << >>
    ELSE << >>

\* A resolver that, for an unlisted product of a category with no default,
\* falls back to the list of one of the category's products.
get_mapping_by_device_any_product(tbl, dev) ==
    LET category == DictGet(tbl, dev.category) IN
    IF category.some /\ category.val.products.some
    THEN LET products == category.val.products.val
             product_mapping == DictGet(products, dev.product_id) IN
         IF product_mapping.some
         THEN product_mapping.val
         ELSE IF category.val.mapping.some
              THEN category.val.mapping.val
              ELSE IF DOMAIN products = {} THEN << >>
                   ELSE products[CHOOSE k \in DOMAIN products : TRUE]
    ELSE << >>

get_mapping_by_device(tbl, dev) ==
    LET category == DictGet(tbl, dev.category) IN
    IF category.some /\ category.val.products.some
    THEN LET product_mapping ==
                 DictGet(category.val.products.val, dev.product_id) IN
         IF product_mapping.some
         THEN product_mapping.val
         ELSE IF category.val.mapping.some
              THEN category.val.mapping.val
              ELSE << >>
    ELSE << >>

(*********************** the driver's datapoint collection *****************)
\* TuyaBLEDataPoint: a cell with a type tag and an integer payload.
TuyaBLEDataPoint(type, value) == [type |-> type, value |-> value]

\* datapoints[id]: the datapoint, or None when the device has none with that id.
DataPointsGetItem(dps, id) == DictGet(dps, id)

\* datapoints.has_id(id, type): the id is known, and of that type if one is given.
has_id(dps, id, type) ==
    id \in DOMAIN dps /\ (type = "None" \/ dps[id].type = type)

\* datapoints.get_or_create(id, type, value): the collection afterwards. The
\* existing datapoint is kept as it is; a missing one is created with the
\* given type and value.
get_or_create(dps, id, type, value) ==
    IF id \in DOMAIN dps THEN dps
    ELSE dps @@ (id :> TuyaBLEDataPoint(type, value))

\* datapoint.set_value(value), once the task runs: the cell holds the value.
set_value(dps, id, value) ==
    [dps EXCEPT ![id] = TuyaBLEDataPoint(dps[id].type, value)]

(*********************** TuyaBLESelect *************************************)
\* __init__: the adapter keeps the mapping; _attr_options is its option list.
AttrOptions(m) == m.description.options

\* A read that shows the first option while the datapoint is missing.
current_option_default_first(m, dps) ==
    LET datapoint == DataPointsGetItem(dps, m.dp_id) IN
    IF datapoint.some
    THEN LET value == datapoint.val.value IN
         IF value >= 0 /\ value < Len(AttrOptions(m))
         THEN PyStr(AttrOptions(m)[value + 1])
         ELSE PyInt(value)
    ELSE PyStr(AttrOptions(m)[1])

\* A read whose range test starts above zero.
current_option_positive(m, dps) ==
    LET datapoint == DataPointsGetItem(dps, m.dp_id) IN
    IF datapoint.some
    THEN LET value == datapoint.val.value IN
         IF value > 0 /\ value < Len(AttrOptions(m))
         THEN PyStr(AttrOptions(m)[value + 1])
         ELSE PyInt(value)
    ELSE PyNone

current_option(m, dps) ==
    LET datapoint == DataPointsGetItem(dps, m.dp_id) IN
    IF datapoint.some
    THEN LET value == datapoint.val.value IN
         IF value >= 0 /\ value < Len(AttrOptions(m))
         THEN PyStr(AttrOptions(m)[value + 1])
         ELSE PyInt(value)
    ELSE PyNone

\* A 1-based position instead of list.index's 0-based one.
SelectIntValue_one_based(m, value) == ListIndex(AttrOptions(m), value) + 1

\* The integer select_option writes for a member value.
SelectIntValue(m, value) == ListIndex(AttrOptions(m), value)

\* The coroutine datapoint.set_value(int_value) handed to hass.create_task.
SetValueTask(dp_id, int_value) == [dp_id |-> dp_id, value |-> int_value]

\* A write that gets or creates the datapoint before it tests membership.
select_option_create_first(m, value, dps, queue) ==
    LET created == get_or_create(dps, m.dp_id, DT_ENUM, 0) IN
    IF In(value, AttrOptions(m))
    THEN LET int_value == SelectIntValue(m, value) IN
         [datapoints |-> get_or_create(dps, m.dp_id, DT_ENUM, int_value),
          tasks |-> Append(queue, SetValueTask(m.dp_id, int_value))]
    ELSE [datapoints |-> created, tasks |-> queue]

\* A write that also stores the value in the cell before it returns.
select_option_eager(m, value, dps, queue) ==
    IF In(value, AttrOptions(m))
    THEN LET int_value == SelectIntValue(m, value)
             got == get_or_create(dps, m.dp_id, DT_ENUM, int_value) IN
         [datapoints |-> set_value(got, m.dp_id, int_value),
          tasks |-> Append(queue, SetValueTask(m.dp_id, int_value))]
    ELSE [datapoints |-> dps, tasks |-> queue]

\* select_option(value): the datapoints and the task queue afterwards.
select_option(m, value, dps, queue) ==
    IF In(value, AttrOptions(m))
    THEN LET int_value == SelectIntValue(m, value) IN
         [datapoints |-> get_or_create(dps, m.dp_id, DT_ENUM, int_value),
          tasks |-> Append(queue, SetValueTask(m.dp_id, int_value))]
    ELSE [datapoints |-> dps, tasks |-> queue]

(*********************** async_setup_entry *********************************)
\* A condition that asks for both force_add and a reported datapoint.
IncludeMapping_and(m, dps) == m.force_add /\ has_id(dps, m.dp_id, m.dp_type)

\* The condition of the loop body.
IncludeMapping(m, dps) == m.force_add \/ has_id(dps, m.dp_id, m.dp_type)

\* The for loop: entities.append(...) for each mapping that passes, in order.
RECURSIVE SetupLoop(_, _, _)
SetupLoop(mappings, dps, acc) ==
    IF mappings = << >> THEN acc
    ELSE SetupLoop(Tail(mappings), dps,
                   IF IncludeMapping(Head(mappings), dps)
                   THEN Append(acc, Head(mappings))
                   ELSE acc)

(*********************** the state machine *********************************)
Idle == [op |-> "none"]

\* Every (category, product_id) pair over the keys above.
Devices == [category : Categories, product_id : ProductIds]

\* The devices of a table: each category with each of its own products and
\* with an unlisted product, and a category the table does not have.
DevicesOf(tbl) ==
    {d \in Devices :
        \/ d.product_id = "unknown"
        \/ /\ d.category \in DOMAIN tbl
           /\ tbl[d.category].products.some
           /\ d.product_id \in DOMAIN tbl[d.category].products.val}

\* The datapoint ids the device can report: those its bindings name.
BoundIds(tbl, dev) ==
    LET ms == get_mapping_by_device(tbl, dev) IN
    {ms[i].dp_id : i \in 1 .. Len(ms)}

Init ==
    /\ table \in TableNames
    /\ device \in DevicesOf(Table(table))
    /\ datapoints = << >>
    /\ tasks = << >>
    /\ entities = << >>
    /\ pc = "setup"
    /\ call = Idle

\* The driver caches a datapoint the device reports.
UpdateFromDevice(id, type, value) ==
    /\ datapoints' = (id :> TuyaBLEDataPoint(type, value)) @@ datapoints
    /\ call' = Idle
    /\ UNCHANGED <<table, device, tasks, entities, pc>>

AsyncSetupEntry ==
    /\ pc = "setup"
    /\ LET mappings == get_mapping_by_device(Table(table), device) IN
       /\ entities' = SetupLoop(mappings, datapoints, << >>)
       /\ call' = [op |-> "async_setup_entry", mappings |-> mappings]
    /\ pc' = "ready"
    /\ UNCHANGED <<table, device, datapoints, tasks>>

CurrentOption(e) ==
    /\ pc = "ready"
    /\ call' = [op |-> "current_option", entity |-> e,
                result |-> current_option(entities[e], datapoints),
                datapoints |-> datapoints, tasks |-> tasks]
    /\ UNCHANGED <<table, device, datapoints, tasks, entities, pc>>

SelectOption(e, value) ==
    /\ pc = "ready"
    /\ Len(tasks) < MaxTasks
    /\ LET after == select_option(entities[e], value, datapoints, tasks) IN
       /\ datapoints' = after.datapoints
       /\ tasks' = after.tasks
    /\ call' = [op |-> "select_option", entity |-> e, value |-> value,
                datapoints |-> datapoints, tasks |-> tasks]
    /\ UNCHANGED <<table, device, entities, pc>>

\* The event loop runs the oldest scheduled set_value coroutine.
RunTask ==
    /\ tasks # << >>
    /\ datapoints' = set_value(datapoints, Head(tasks).dp_id, Head(tasks).value)
    /\ tasks' = Tail(tasks)
    /\ call' = [op |-> "set_value", dp_id |-> Head(tasks).dp_id,
                value |-> Head(tasks).value]
    /\ UNCHANGED <<table, device, entities, pc>>

\* The strings a caller passes to select_option: the options and one other.
OptionInputs(m) ==
    {AttrOptions(m)[i] : i \in 1 .. Len(AttrOptions(m))} \cup {"unknown"}

Next ==
    \/ \E id \in BoundIds(Table(table), device), type \in DataPointTypes,
          value \in RawValues : UpdateFromDevice(id, type, value)
    \/ AsyncSetupEntry
    \/ \E e \in 1 .. Len(entities) : CurrentOption(e)
    \/ \E e \in 1 .. Len(entities) :
          \E value \in OptionInputs(entities[e]) : SelectOption(e, value)
    \/ RunTask

Spec == Init /\ [][Next]_vars

(***************************************************************************)
(* The resolver on its own: any table, any category and product_id of the  *)
(* keys above, one call of get_mapping_by_device.                          *)
(***************************************************************************)
InitResolver ==
    /\ table \in TableNames
    /\ device \in Devices
    /\ datapoints = << >>
    /\ tasks = << >>
    /\ entities = << >>
    /\ pc = "setup"
    /\ call = Idle

Resolve ==
    /\ call = Idle
    /\ call' = [op |-> "get_mapping_by_device",
                result |-> get_mapping_by_device(Table(table), device)]
    /\ UNCHANGED <<table, device, datapoints, tasks, entities, pc>>

NextResolver == Resolve

SpecResolver == InitResolver /\ [][NextResolver]_vars

(*********************** claims about the resolver *************************)
Resolved == call.op = "get_mapping_by_device"
CategoryKnown == device.category \in DOMAIN Table(table)
CategoryEntry == Table(table)[device.category]
\* The product_id has a product-specific entry in the category.
ProductListed ==
    /\ CategoryKnown
    /\ CategoryEntry.products.some
    /\ device.product_id \in DOMAIN CategoryEntry.products.val
HasDefault == CategoryKnown /\ CategoryEntry.mapping.some

\* C1: for a category with a default list and a product_id with no
\* product-specific entry (also when the category defines no products at
\* all), get_mapping_by_device returns the category's default list.
C1_DefaultFallback ==
    (Resolved /\ HasDefault /\ ~ProductListed)
        => call.result = CategoryEntry.mapping.val

\* C3: for a (category, product_id) pair with a product-specific entry,
\* get_mapping_by_device returns exactly that entry's list, in its order,
\* with nothing of the category default merged in.
C3_ProductSpecific ==
    /\ (Resolved /\ ProductListed)
           => call.result = CategoryEntry.products.val[device.product_id]
    /\ (Resolved /\ table = "mapping" /\ device.category = "szjqr")
           => /\ device.product_id \in {"3yqdo5yt", "xhf790if"}
                  => call.result = << TuyaBLEFingerbotModeMapping(2) >>
              /\ device.product_id \in
                     {"blliqpsj", "yiihr7zh", "ltak7e1p", "y6kttvd6", "yrnk7mnn"}
                  => call.result = << TuyaBLEFingerbotModeMapping(8) >>
    /\ (Resolved /\ table = "mapping" /\ device = [category |-> "ms",
                                                  product_id |-> "ludzroix"])
           => /\ Len(call.result) = 1
              /\ call.result[1].dp_id = 31
              /\ call.result[1].description.options =
                     <<"mute", "low", "normal", "high">>

\* A listed product of a category that also has a default list was resolved
\* to its own two bindings.
C3_Witness ==
    /\ Resolved /\ ProductListed /\ HasDefault
    /\ Len(call.result) = 2
    /\ call.result # CategoryEntry.mapping.val
    /\ call.result[1].dp_id = 1 /\ call.result[2].dp_id = 3

\* C8: get_mapping_by_device always returns a list; the list is empty for a
\* category the table does not have, and for a known category whose
\* product_id has no entry and which has no default list.
IsList(x) == DOMAIN x = 1 .. Len(x)
C8_Totality ==
    Resolved =>
        /\ IsList(call.result)
        /\ \A i \in 1 .. Len(call.result) :
               call.result[i].dp_id \in Int /\ IsList(AttrOptions(call.result[i]))
        /\ ~CategoryKnown => call.result = << >>
        /\ (CategoryKnown /\ ~ProductListed /\ ~HasDefault) => call.result = << >>

\* An unlisted product of a known category that has product entries and no
\* default list was resolved to the empty list.
C8_Witness ==
    /\ Resolved /\ CategoryKnown /\ ~ProductListed /\ ~HasDefault
    /\ CategoryEntry.products.some
    /\ DOMAIN CategoryEntry.products.val # {}
    /\ call.result = << >>

(*********************** claims about the adapter **************************)
Reading == call.op = "current_option"
Selecting == call.op = "select_option"
Written == call.op = "set_value"
\* The mapping and the option list of the adapter the last call was made on.
CallMapping == entities[call.entity]
CallOptions == AttrOptions(CallMapping)
CallDpId == CallMapping.dp_id
\* The cached raw value of that adapter's datapoint, when it is present.
Present == CallDpId \in DOMAIN datapoints
Raw == datapoints[CallDpId].value
InRange(v, options) == v >= 0 /\ v < Len(options)
Member == \E i \in 1 .. Len(CallOptions) : CallOptions[i] = call.value
BeepVolume == <<"mute", "low", "normal", "high">>

\* The string form of an int, str(n) as Python prints it.
Digit(d) == <<"0", "1", "2", "3", "4", "5", "6", "7", "8", "9">>[d + 1]
RECURSIVE NatToStr(_)
NatToStr(n) == IF n < 10 THEN Digit(n) ELSE NatToStr(n \div 10) \o Digit(n % 10)
IntToStr(n) == IF n < 0 THEN "-" \o NatToStr(-n) ELSE NatToStr(n)

\* C2: when the datapoint is present and its raw value is no valid index,
\* current_option returns the string form of the raw value.
C2_OutOfRangeString ==
    (Reading /\ Present /\ ~InRange(Raw, CallOptions))
        => call.result = PyStr(IntToStr(Raw))

\* C7: current_option returns None when the datapoint is absent and the
\* option at index v when the raw value v is a valid index; the read
\* changes neither the datapoints nor the scheduled tasks.
C7_AbsentAndInRange ==
    Reading =>
        /\ ~Present => call.result = PyNone
        /\ (Present /\ InRange(Raw, CallOptions))
               => call.result = PyStr(CallOptions[Raw + 1])
        /\ datapoints = call.datapoints
        /\ tasks = call.tasks

\* Raw value 2 on ["mute", "low", "normal", "high"] was read as "normal".
C7_Witness ==
    /\ Reading /\ Present
    /\ CallOptions = BeepVolume
    /\ Raw = 2
    /\ call.result = PyStr("normal")

\* C4: select_option with a member value gets or creates the bound
\* datapoint as an enumerated one and schedules exactly one set_value whose
\* integer is the 0-based index of the value; no other datapoint changes.
C4_MemberWrite ==
    (Selecting /\ Member) =>
        LET index == CHOOSE i \in 0 .. Len(CallOptions) - 1 :
                         /\ CallOptions[i + 1] = call.value
                         /\ \A j \in 0 .. i - 1 : CallOptions[j + 1] # call.value
        IN  /\ tasks = Append(call.tasks,
                              [dp_id |-> CallDpId, value |-> index])
            /\ Present
            /\ CallDpId \notin DOMAIN call.datapoints
                   => datapoints[CallDpId].type = DT_ENUM
            /\ DOMAIN datapoints = DOMAIN call.datapoints \cup {CallDpId}
            /\ \A id \in DOMAIN call.datapoints :
                   datapoints[id] = call.datapoints[id]
            /\ (CallOptions = BeepVolume /\ call.value = "low") => index = 1

\* select_option("low") on the beep volume list, with no datapoint 31 yet,
\* created it as DT_ENUM and scheduled the write of 1.
C4_Witness ==
    /\ Selecting
    /\ CallOptions = BeepVolume /\ call.value = "low"
    /\ 31 \notin DOMAIN call.datapoints
    /\ datapoints[31].type = DT_ENUM
    /\ tasks = Append(call.tasks, [dp_id |-> 31, value |-> 1])

\* C5: select_option with a value that is not in the option list schedules
\* nothing and leaves the datapoint collection as it was.
C5_NonMemberNoOp ==
    (Selecting /\ ~Member) =>
        /\ tasks = call.tasks
        /\ datapoints = call.datapoints

\* select_option("unknown") ran while the datapoint was absent: it is still
\* absent and the queue is the same.
C5_Witness ==
    /\ Selecting /\ call.value = "unknown" /\ ~Member
    /\ ~Present
    /\ tasks = call.tasks

\* C9: select_option on an existing datapoint returns with the write only
\* scheduled, the cached value untouched; a read made while a write of
\* another value is pending returns the option of the cached value.
C9_ReadBeforeTaskRuns ==
    /\ (Selecting /\ Member /\ CallDpId \in DOMAIN call.datapoints)
           => /\ datapoints = call.datapoints
              /\ Len(tasks) = Len(call.tasks) + 1
              /\ tasks[Len(tasks)].dp_id = CallDpId
    /\ (Reading /\ Present /\ InRange(Raw, CallOptions))
           => \A k \in 1 .. Len(tasks) :
                  (tasks[k].dp_id = CallDpId /\ tasks[k].value # Raw)
                      => /\ call.result = PyStr(CallOptions[Raw + 1])
                         /\ call.result # PyStr(CallOptions[tasks[k].value + 1])

\* A read returned the cached option while the write of another option to
\* the same datapoint was still pending.
C9_Witness ==
    /\ Reading /\ Present /\ InRange(Raw, CallOptions)
    /\ tasks # << >>
    /\ Head(tasks).dp_id = CallDpId
    /\ Head(tasks).value # Raw
    /\ call.result = PyStr(CallOptions[Raw + 1])

\* C10: once the set_value task of select_option(o) has run, with nothing
\* else in between, current_option returns o; the option lists hold
\* pairwise distinct values.
Distinct(list) ==
    \A i, j \in 1 .. Len(list) : list[i] = list[j] => i = j
C10_RoundTrip ==
    Written =>
        \A e \in 1 .. Len(entities) :
            entities[e].dp_id = call.dp_id =>
                LET options == AttrOptions(entities[e]) IN
                /\ Distinct(options)
                /\ \A i \in 1 .. Len(options) :
                       SelectIntValue(entities[e], options[i]) = call.value
                           => current_option(entities[e], datapoints)
                                  = PyStr(options[i])

\* The write scheduled by select_option("72h") ran; the read gives "72h".
C10_Witness ==
    /\ Written /\ table = "mapping"
    /\ call.dp_id = 10 /\ call.value = 3
    /\ Len(entities) = 1
    /\ SelectIntValue(entities[1], "72h") = call.value
    /\ current_option(entities[1], datapoints) = PyStr("72h")

(*********************** claims about the registrar ************************)
SetupDone == call.op = "async_setup_entry"

\* C6: async_setup_entry registers, in the order of the resolved list, one
\* adapter for each binding with force_add or with has_id(dp_id, dp_type),
\* and none for any other binding.
C6_Inclusion ==
    SetupDone =>
        LET Included(m) ==
                m.force_add \/ has_id(datapoints, m.dp_id, m.dp_type)
        IN  /\ entities = SelectSeq(call.mappings, Included)
            /\ call.mappings = get_mapping_by_device(Table(table), device)

\* With no datapoint reported, the force_add=True binding was registered
\* and the force_add=False binding was not.
C6_Witness ==
    /\ SetupDone
    /\ datapoints = << >>
    /\ Len(call.mappings) = 2
    /\ call.mappings[1].force_add /\ ~call.mappings[2].force_add
    /\ entities = << call.mappings[1] >>

====
